---- MODULE Spec2Model ----
(***************************************************************************)
(* A model of the osint-project telemetry pipeline:                        *)
(*   src/networkws.py  ConnectionTracker (collector side)                  *)
(*   src/service.py    WebSocketServer   (analyzer side: relay loop, hub)  *)
(***************************************************************************)
EXTENDS Integers, Sequences, FiniteSets, TLC

(***************************************************************************)
(* Bounds of the model.                                                    *)
(***************************************************************************)
\* longest raw sample psutil.net_connections returns in one cycle
MaxSample == 2
\* number of get_detailed_connections cycles explored by TrackerSpec
MaxCycles == 3
\* number of cycles explored by HistorySpec, past the history cap
MaxLongCycles == 22
\* subscriber connections of the analyzer
NumSubscribers == 2
\* scored batches the relay broadcasts
MaxBatches == 2
\* calls of the hub's methods explored by HubSpec
MaxCalls == 4
\* concurrent sessions of the collector's handler
NumSessions == 2
\* calls of get_detailed_connections one session makes
MaxPolls == 2
\* longest batch of which every composition is scored
MaxShortBatch == 4
\* longest batch scored, past the 10 rows of top_anomalies
MaxLongBatch == 12

(***************************************************************************)
(* Values of the collector.  An IPv4 address is its four octets; a string  *)
(* is the sequence of its characters where the code indexes it.            *)
(***************************************************************************)
Min(a, b) == IF a < b THEN a ELSE b

\* a socket address (ip, port); psutil gives the empty tuple for "no raddr"
Addr(ip, port) == <<ip, port>>
NoAddr == <<>>

PrivateIp == <<10, 0, 0, 5>>
LoopbackIp == <<127, 0, 0, 1>>
UnspecifiedIp == <<0, 0, 0, 0>>
LinkLocalIp == <<169, 254, 1, 1>>
PublicIp == <<93, 184, 216, 34>>
RemoteIp == <<8, 8, 8, 8>>
\* text that ipaddress.ip_address rejects with ValueError
MalformedIp == <<999, 0, 0, 1>>

ESTABLISHED == <<"E", "S", "T", "A", "B", "L", "I", "S", "H", "E", "D">>
CLOSE_WAIT == <<"C", "L", "O", "S", "E", "_", "W", "A", "I", "T">>
LISTEN == <<"L", "I", "S", "T", "E", "N">>
\* psutil.CONN_NONE, the status of a UDP socket
NONE == <<"N", "O", "N", "E">>

SOCK_STREAM == "SOCK_STREAM"
SOCK_DGRAM == "SOCK_DGRAM"

\* what the rendered conn_id holds in place of an absent remote ip / port
NoneIp == <<"N", "o", "n", "e">>
NonePort == -1


(***************************************************************************)
(* A raw connection, as psutil.net_connections yields it:                  *)
(*   type          SOCK_STREAM or SOCK_DGRAM                               *)
(*   laddr, raddr  socket addresses; raddr is NoAddr when there is none,   *)
(*                 and a tuple whose laddr is NoAddr is malformed: reading *)
(*                 laddr.ip raises                                         *)
(*   status        the status text                                         *)
(*   proc          the outcome of psutil.Process(pid).name(): a name, or   *)
(*                 NoSuchProcess / AccessDenied, or another error          *)
(***************************************************************************)
RawConn(ty, la, ra, st, pr) ==
    [type |-> ty, laddr |-> la, raddr |-> ra, status |-> st, proc |-> pr]

NoSuchProcess == "NoSuchProcess"
AccessDenied == "AccessDenied"
LookupError == "LookupError"

(***************************************************************************)
(* ipaddress: ip_address(ip) raises ValueError unless every octet is in    *)
(* 0..255; is_private is membership in the private networks; is_loopback   *)
(* is 127.0.0.0/8.                                                         *)
(***************************************************************************)
ValidIp(ip) == Len(ip) = 4 /\ \A i \in 1..4 : ip[i] \in 0..255

is_private(ip) ==
    \/ ip[1] = 0
    \/ ip[1] = 10
    \/ ip[1] = 127
    \/ ip[1] = 169 /\ ip[2] = 254
    \/ ip[1] = 172 /\ ip[2] \in 16..31
    \/ ip[1] = 192 /\ ip[2] = 0 /\ ip[3] = 0 /\ ip[4] \in 0..7
    \/ ip[1] = 192 /\ ip[2] = 0 /\ ip[3] = 0 /\ ip[4] \in 170..171
    \/ ip[1] = 192 /\ ip[2] = 0 /\ ip[3] = 2
    \/ ip[1] = 192 /\ ip[2] = 168
    \/ ip[1] = 198 /\ ip[2] \in 18..19
    \/ ip[1] = 198 /\ ip[2] = 51 /\ ip[3] = 100
    \/ ip[1] = 203 /\ ip[2] = 0 /\ ip[3] = 113
    \/ ip[1] \in 240..255

is_loopback(ip) == ip[1] = 127

\* ConnectionTracker.is_local_address
is_local_address(ip) ==
    IF ValidIp(ip)
    THEN \/ is_private(ip)
         \/ is_loopback(ip)
         \/ ip = <<0, 0, 0, 0>>
         \/ (ip[1] = 169 /\ ip[2] = 254)
    ELSE FALSE

(***************************************************************************)
(* Python's integer "&", and bool as the integers 0 and 1.                 *)
(***************************************************************************)
RECURSIVE BitAnd(_, _)
BitAnd(a, b) ==
    IF a = 0 \/ b = 0 THEN 0
    ELSE (a % 2) * (b % 2) + 2 * BitAnd(a \div 2, b \div 2)

BoolInt(b) == IF b THEN 1 ELSE 0

\* the port of the retention test
RdpPort == 3389

\* line 89:  is_local_address(ip)==False & port!=3389
\* "&" binds tighter than the comparisons, which then chain:
\*     is_local == (False & port)  and  (False & port) != 3389
\* (a mutant: the locality test left out)
RetainedPortOnly(conn) == conn.laddr[2] # RdpPort
Retained(conn) ==
    LET masked == BitAnd(BoolInt(FALSE), conn.laddr[2])
    IN  BoolInt(is_local_address(conn.laddr[1])) = masked /\ masked # RdpPort


(***************************************************************************)
(* ConnectionTracker.get_detailed_connections                              *)
(*                                                                         *)
(* Time is counted in half milliseconds, so that round(duration, 3) has    *)
(* something to round; an emitted duration is a number of milliseconds.    *)
(***************************************************************************)
\* the history slice of line 79: history[:20]
HistoryCap == 20

\* a dict with key k set to v
Put(f, k, v) == [x \in DOMAIN f \cup {k} |-> IF x = k THEN v ELSE f[x]]
\* a dict without the keys in ks
Drop(f, ks) == [x \in DOMAIN f \ ks |-> f[x]]
EmptyDict == [x \in {} |-> 0]

\* line 39: the f-string identity of a connection
ConnId(conn) ==
    <<conn.laddr[1], conn.laddr[2],
      IF conn.raddr # NoAddr THEN conn.raddr[1] ELSE NoneIp,
      IF conn.raddr # NoAddr THEN conn.raddr[2] ELSE NonePort>>

\* lines 47-51: the process name, "unknown" when the process is gone or denied
Unknown == "unknown"
ProcessName(conn) ==
    IF conn.proc \in {NoSuchProcess, AccessDenied} THEN Unknown ELSE conn.proc

\* round(x, 3) of x = h half milliseconds, in milliseconds (ties to even)
Round3(h) ==
    IF h % 2 = 0 THEN h \div 2
    ELSE IF ((h - 1) \div 2) % 2 = 0 THEN (h - 1) \div 2 ELSE (h + 1) \div 2

\* (a mutant: the start time is overwritten on every call)
RecordStartAlways(start_times, conn_id, current_time) ==
    Put(start_times, conn_id, current_time)
\* lines 43-44: the start time is recorded for an identity not yet known
RecordStart(start_times, conn_id, current_time) ==
    IF conn_id \notin DOMAIN start_times
    THEN Put(start_times, conn_id, current_time)
    ELSE start_times

\* lines 57-60: the history of the record being built
History(connections, conn_id, status) ==
    IF conn_id \in DOMAIN connections
    THEN Append(connections[conn_id].history, status[1])
    ELSE <<status[1]>>

\* (a mutant: no slice)
SliceAll(history) == history
\* line 79: history[:20]
Slice20(history) == SubSeq(history, 1, Min(HistoryCap, Len(history)))

\* lines 63-87: the record.  ts and uid are fresh on every record and the
\* remaining fields are fixed values; neither is modelled.  conn_id is not a
\* field of the code's record: it is carried along so that a property can
\* name the identity a record was built for.
ConnectionData(conn, conn_id, process_name, duration, history) ==
    [orig_h |-> conn.laddr[1],
     proto |-> IF conn.type = SOCK_STREAM THEN "tcp" ELSE "udp",
     orig_p |-> conn.laddr[2],
     resp_h |-> IF conn.raddr # NoAddr THEN conn.raddr[1] ELSE UnspecifiedIp,
     resp_p |-> IF conn.raddr # NoAddr THEN conn.raddr[2] ELSE 0,
     service |-> process_name,
     duration |-> Round3(duration),
     conn_state |-> conn.status,
     local_orig |-> is_local_address(conn.laddr[1]),
     local_resp |-> is_local_address(IF conn.raddr # NoAddr THEN conn.raddr[1]
                                     ELSE UnspecifiedIp),
     history |-> Slice20(history),
     conn_id |-> conn_id]

\* lines 37-95: the body of the loop for one raw connection, on the tracker
\* state st = [connections, start_times, current_connections, connections_data]
ProcessConn(st, conn, current_time) ==
    IF conn.laddr = NoAddr
    THEN st                                   \* line 39 raises: skipped
    ELSE
    LET conn_id == ConnId(conn)
        seen == st.current_connections \cup {conn_id}
        starts == RecordStart(st.start_times, conn_id, current_time)
    IN  IF conn.proc = LookupError
        THEN [st EXCEPT !.current_connections = seen,   \* line 48 raises
                        !.start_times = starts]
        ELSE
        LET duration == current_time - starts[conn_id]
            history == History(st.connections, conn_id, conn.status)
            connection_data == ConnectionData(conn, conn_id, ProcessName(conn),
                                              duration, history)
        IN  IF Retained(conn)
            THEN [connections |-> Put(st.connections, conn_id, connection_data),
                  start_times |-> starts,
                  current_connections |-> seen,
                  connections_data |-> Append(st.connections_data, connection_data)]
            ELSE [st EXCEPT !.current_connections = seen,
                            !.start_times = starts]

\* (a mutant: the first raw connection that raises ends the loop)
RECURSIVE ProcessAllAborting(_, _, _, _)
ProcessAllAborting(st, raw, i, current_time) ==
    IF i > Len(raw) THEN st
    ELSE IF raw[i].laddr = NoAddr \/ raw[i].proc = LookupError
         THEN ProcessConn(st, raw[i], current_time)
         ELSE ProcessAllAborting(ProcessConn(st, raw[i], current_time), raw, i + 1,
                                 current_time)
\* lines 36-95: the loop over the raw sample
RECURSIVE ProcessAll(_, _, _, _)
ProcessAll(st, raw, i, current_time) ==
    IF i > Len(raw) THEN st
    ELSE ProcessAll(ProcessConn(st, raw[i], current_time), raw, i + 1, current_time)

\* lines 97-102: identities absent from this sample are dropped
CleanUp(st) ==
    LET gone == DOMAIN st.start_times \ st.current_connections
    IN  [st EXCEPT !.start_times = Drop(st.start_times, gone),
                   !.connections = Drop(st.connections, gone)]

\* lines 30-104: one call, from the stored maps to the new maps and the result
GetDetailedConnections(conns, starts, raw, current_time) ==
    CleanUp(ProcessAll([connections |-> conns,
                        start_times |-> starts,
                        current_connections |-> {},
                        connections_data |-> <<>>],
                       raw, 1, current_time))


(***************************************************************************)
(* The state.                                                              *)
(***************************************************************************)
VARIABLES
    \* --- collector: one ConnectionTracker (src/networkws.py)
    connections,    \* ConnectionTracker.connections: conn_id -> last retained record
    start_times,    \* ConnectionTracker.start_times: conn_id -> first time seen
    now,            \* the last value of time.time(), in half milliseconds
    cycle,          \* calls of get_detailed_connections so far
    sample,         \* the raw sample of the last call
    seen_ids,       \* current_connections of the last call
    result,         \* connections_data returned by the last call
    evicted,        \* the identities some call has dropped from start_times
    \* --- analyzer: WebSocketServer (src/service.py)
    connected_clients,  \* WebSocketServer.connected_clients
    client_pc,      \* where handle_client stands for each subscriber
    client_open,    \* whether the subscriber's connection is open
    inbox,          \* the messages each subscriber has received
    failed_sends,   \* the batches whose send to the subscriber raised
    relay_pc,       \* where process_network_data stands
    channel,        \* the connection to the data source
    batch,          \* the number of the last batch that was broadcast
    recipients,     \* the subscribers the last broadcast built a send for
    pending,        \* the sends of the broadcast in flight not yet resolved
    log,            \* the last line process_network_data printed
    msg,            \* what the last receive of process_network_data gave
    \* --- calls of the hub's methods from outside handle_client
    calls,          \* the calls made so far
    raised,         \* the exception the last call raised
    \* --- collector: the sessions of handler, one tracker each
    session_pc,     \* where handler stands for each session
    trackers,       \* the ConnectionTracker of each session: its two maps
    polled,         \* the samples each session has taken, with their times
    emitted,        \* the records of each session's last call
    clock,          \* the last value of time.time() any session has read
    \* --- analyzer: the scorer on one batch (NetworkAnalyzer)
    records,        \* the connections of the batch being scored
    scores,         \* anomaly_score, one per record
    top_anomalies   \* the rows of nlargest(10, 'anomaly_score'), as row numbers

tracker_vars == <<connections, start_times, now, cycle, sample, seen_ids, result, evicted>>
analyzer_vars == <<connected_clients, client_pc, client_open, inbox, failed_sends,
                   relay_pc, channel, batch, recipients, pending, log, msg>>
call_vars == <<calls, raised>>
session_vars == <<session_pc, trackers, polled, emitted, clock>>
score_vars == <<records, scores, top_anomalies>>
vars == <<tracker_vars, analyzer_vars, call_vars, session_vars, score_vars>>

(***************************************************************************)
(* The raw connections the samples are drawn from.                         *)
(***************************************************************************)
Chrome == "chrome"
Named == "named"
Remote == Addr(RemoteIp, 443)

TcpEstablished == RawConn(SOCK_STREAM, Addr(PublicIp, 443), Remote, ESTABLISHED, Chrome)
TcpCloseWait == RawConn(SOCK_STREAM, Addr(PublicIp, 443), Remote, CLOSE_WAIT, Chrome)
TcpLookupError == RawConn(SOCK_STREAM, Addr(PublicIp, 443), Remote, ESTABLISHED, LookupError)
UdpDns == RawConn(SOCK_DGRAM, Addr(PublicIp, 53), NoAddr, NONE, Named)
PublicRdp == RawConn(SOCK_STREAM, Addr(PublicIp, RdpPort), NoAddr, LISTEN, AccessDenied)
PrivateRdp == RawConn(SOCK_STREAM, Addr(PrivateIp, RdpPort), Remote, ESTABLISHED, NoSuchProcess)
LoopbackListen == RawConn(SOCK_STREAM, Addr(LoopbackIp, 5000), NoAddr, LISTEN, Chrome)
NoLaddr == RawConn(SOCK_DGRAM, NoAddr, NoAddr, NONE, Chrome)

RawConns ==
    { TcpEstablished, TcpCloseWait, TcpLookupError, UdpDns,
      PublicRdp, PrivateRdp, LoopbackListen, NoLaddr }

\* One snapshot of the connection table: a TCP connection (a socket with a
\* remote address) is listed once.  Sockets without a remote address may
\* share their local address (TCP and UDP on one port, SO_REUSEPORT).
OneSnapshot(raw) ==
    \A i, j \in 1..Len(raw) :
        (/\ i < j
         /\ raw[i].type = SOCK_STREAM /\ raw[j].type = SOCK_STREAM
         /\ raw[i].raddr # NoAddr
         /\ raw[i].laddr = raw[j].laddr /\ raw[i].raddr = raw[j].raddr) => FALSE

\* the raw samples: the snapshots of at most MaxSample raw connections
Samples == {raw \in UNION {[1..n -> RawConns] : n \in 0..MaxSample} : OneSnapshot(raw)}

\* how far time.time() moves between two calls, in half milliseconds
Ticks == {0, 1}

TrackerInit ==
    /\ connections = EmptyDict
    /\ start_times = EmptyDict
    /\ now = 0
    /\ cycle = 0
    /\ sample = <<>>
    /\ seen_ids = {}
    /\ result = <<>>
    /\ evicted = {}

\* one call of get_detailed_connections on the sample raw, dt after the last
Cycle(raw, dt) ==
    \E st \in {GetDetailedConnections(connections, start_times, raw, now + dt)} :
        /\ connections' = st.connections
        /\ start_times' = st.start_times
        /\ now' = now + dt
        /\ cycle' = cycle + 1
        /\ sample' = raw
        /\ seen_ids' = st.current_connections
        /\ result' = st.connections_data
        /\ evicted' = evicted \cup (DOMAIN start_times \ DOMAIN st.start_times)
        /\ UNCHANGED <<analyzer_vars, call_vars, session_vars, score_vars>>

(***************************************************************************)
(* Long runs, past the history cap: every sample holds one identity, a TCP *)
(* connection that goes from ESTABLISHED to CLOSE_WAIT or a UDP port that  *)
(* several sockets are bound to.                                           *)
(***************************************************************************)
HistorySamples ==
    {raw \in UNION {[1..n -> {TcpEstablished, TcpCloseWait, UdpDns}] : n \in 0..MaxSample} :
        /\ OneSnapshot(raw)
        /\ \A i, j \in 1..Len(raw) : ConnId(raw[i]) = ConnId(raw[j])}

\* a connection seen in CLOSE_WAIT is not seen ESTABLISHED in the next sample
Progresses(raw) ==
    (\E i \in 1..Len(sample) : sample[i] = TcpCloseWait)
        => ~(\E j \in 1..Len(raw) : raw[j] = TcpEstablished)

(***************************************************************************)
(* WebSocketServer: the subscriber hub.                                    *)
(***************************************************************************)
\* the subscriber connections (websocket objects) that may come to exist
Subscribers == 1..NumSubscribers

NoError == "none"
KeyError == "KeyError"

\* line 110: connected_clients.add(websocket)
register(clients, websocket) == clients \cup {websocket}

\* line 115: connected_clients.remove(websocket); set.remove raises KeyError
\* for an element that is not in the set
unregister(clients, websocket) ==
    IF websocket \in clients
    THEN [clients |-> clients \ {websocket}, raised |-> NoError]
    ELSE [clients |-> clients, raised |-> KeyError]

\* lines 121-124: gather(..., return_exceptions=True) waits for every send;
\* the sends still to resolve after the send to client resolved, well or not
GatherAbortsOnFailure(waiting, client, sent) ==
    IF sent THEN waiting \ {client} ELSE {}
Gather(waiting, client, sent) == waiting \ {client}

\* line 123: with return_exceptions=True the exceptions of the sends are
\* results of gather, and gather itself raises none of them
GatherRaises(failures) == FALSE

\* the message of lines 130-133, told apart from the batch numbers 1, 2, ...
Greeting == 0

\* line 128: a subscriber connects and handle_client registers it
HandleClientRegister(ws) ==
    /\ client_pc[ws] = "new"
    /\ connected_clients' = register(connected_clients, ws)
    /\ client_open' = [client_open EXCEPT ![ws] = TRUE]
    /\ client_pc' = [client_pc EXCEPT ![ws] = "greeting"]
    /\ UNCHANGED <<inbox, failed_sends, relay_pc, channel, batch, recipients, pending, log, msg>>
    /\ UNCHANGED <<tracker_vars, call_vars, session_vars, score_vars>>

\* lines 129-145: the greeting is sent and the keep-alive loop entered; a
\* closed connection raises ConnectionClosed, which ends in unregister.
\* In the loop asyncio.sleep(1) returns and the loop goes round, which
\* changes nothing; the sleep raises only if the task is cancelled, and
\* nothing in the program cancels it: "keepalive" has no way out.
HandleClientGreeting(ws) ==
    /\ client_pc[ws] = "greeting"
    /\ IF client_open[ws]
       THEN /\ inbox' = [inbox EXCEPT ![ws] = @ \cup {Greeting}]
            /\ client_pc' = [client_pc EXCEPT ![ws] = "keepalive"]
            /\ UNCHANGED connected_clients
       ELSE /\ connected_clients' = unregister(connected_clients, ws).clients
            /\ client_pc' = [client_pc EXCEPT ![ws] = "done"]
            /\ UNCHANGED inbox
    /\ UNCHANGED <<client_open, failed_sends, relay_pc, channel, batch, recipients, pending, log, msg>>
    /\ UNCHANGED <<tracker_vars, call_vars, session_vars, score_vars>>

\* the subscriber goes away: its connection is closed from then on
SubscriberCloses(ws) ==
    /\ client_pc[ws] # "new"
    /\ client_open[ws]
    /\ client_open' = [client_open EXCEPT ![ws] = FALSE]
    /\ UNCHANGED <<connected_clients, client_pc, inbox, failed_sends,
                   relay_pc, channel, batch, recipients, pending, log, msg>>
    /\ UNCHANGED <<tracker_vars, call_vars, session_vars, score_vars>>

(***************************************************************************)
(* WebSocketServer.process_network_data: the relay loop.                   *)
(***************************************************************************)
\* what a received message turns out to be:
\*   invalid_json      json.loads raises JSONDecodeError (line 165)
\*   no_field          the decoded value has no 'connections' (line 165)
\*   no_connections    the list of connections is empty (line 167)
\*   no_features       preprocess_data returns None (lines 66-68, 170)
\*   no_scores         calculate_anomaly_score returns None (lines 99-101, 173)
\*   scored            the batch is scored and line 200 is reached
MessageKinds ==
    {"invalid_json", "no_field", "no_connections", "no_features", "no_scores", "scored"}

\* (a mutant: only an empty list of connections keeps from broadcasting)
BroadcastsUnlessEmpty(kind) == kind \in {"no_features", "no_scores", "scored"}
\* lines 165-173: line 200 is reached when nothing raised and the three
\* tests passed
Broadcasts(kind) == kind = "scored"

\* line 165 raises on a message that cannot be decoded
Raises(kind) == kind \in {"invalid_json", "no_field"}

\* (a mutant: the inner try has the JSONDecodeError handler only)
CaughtInsideJsonOnly(kind) == kind = "invalid_json"
\* lines 216-219: JSONDecodeError has a handler of its own and "except
\* Exception" catches the KeyError of a missing field, both inside the
\* receive loop
CaughtInside(kind) == TRUE

\* the line the handlers of lines 216-219 print for a message
Printed(kind, last) ==
    CASE kind = "invalid_json" -> "error_decoding_json"
      [] kind = "no_field" -> "error_processing_data"
      [] OTHER -> last

\* (a mutant: the sleep of line 221 inside the try, skipped when it raises)
AfterMessageIfHandled(handled) == IF handled THEN "pause" ELSE "recv"
\* line 221: the sleep follows the try statement, whether the message was
\* handled or one of the handlers of lines 216-219 ran
AfterMessage(handled) == "pause"

\* (a mutant: the sends follow the set as it changes)
SendTargetsLive(snapshot, clients) == snapshot \cup clients
\* line 122: the list of sends is built from the set in one go, before the
\* first await; who registers or unregisters later is not in it
SendTargets(snapshot, clients) == snapshot

\* line 159: websockets.connect succeeds, or raises (lines 226-228)
RelayConnect ==
    /\ relay_pc = "connect"
    /\ \/ /\ channel' = "open"
          /\ relay_pc' = "recv"
          /\ log' = "connected"
       \/ /\ channel' = "none"
          /\ relay_pc' = "retry"
          /\ log' = "error_retrying"
    /\ UNCHANGED <<connected_clients, client_pc, client_open, inbox, failed_sends,
                   batch, recipients, pending, msg>>
    /\ UNCHANGED <<tracker_vars, call_vars, session_vars, score_vars>>

\* lines 223-228: the sleep of 2 seconds before the next connection attempt
RelayRetry ==
    /\ relay_pc = "retry"
    /\ relay_pc' = "connect"
    /\ UNCHANGED <<connected_clients, client_pc, client_open, inbox, failed_sends,
                   channel, batch, recipients, pending, log, msg>>
    /\ UNCHANGED <<tracker_vars, call_vars, session_vars, score_vars>>

\* the data source closes the connection
PublisherCloses ==
    /\ channel = "open"
    /\ channel' = "closed"
    /\ UNCHANGED <<connected_clients, client_pc, client_open, inbox, failed_sends,
                   relay_pc, batch, recipients, pending, log, msg>>
    /\ UNCHANGED <<tracker_vars, call_vars, session_vars, score_vars>>

\* lines 164, 218-219: recv on a closed connection raises ConnectionClosed
\* inside the inner try, where "except Exception" catches it
RelayRecvClosed ==
    /\ relay_pc = "recv"
    /\ channel = "closed"
    /\ log' = "error_processing_data"
    /\ msg' = "closed"
    /\ relay_pc' = AfterMessage(FALSE)
    /\ UNCHANGED <<connected_clients, client_pc, client_open, inbox, failed_sends,
                   channel, batch, recipients, pending>>
    /\ UNCHANGED <<tracker_vars, call_vars, session_vars, score_vars>>

\* lines 164-200, 216-219: a message arrives.  Only a scored batch reaches
\* broadcast, which builds one send per subscriber of the set (line 122) if
\* the set is not empty (line 120)
RelayRecv(kind) ==
    /\ relay_pc = "recv"
    /\ channel = "open"
    /\ msg' = kind
    /\ IF Broadcasts(kind)
       THEN /\ batch < MaxBatches
            /\ batch' = batch + 1
            /\ recipients' = connected_clients
            /\ pending' = connected_clients
            /\ relay_pc' = "gather"
            /\ UNCHANGED <<log, channel>>
       ELSE IF Raises(kind) /\ ~CaughtInside(kind)
       THEN /\ log' = "error_retrying"
            /\ channel' = "none"
            /\ relay_pc' = "retry"
            /\ UNCHANGED <<batch, recipients, pending>>
       ELSE /\ log' = Printed(kind, log)
            /\ relay_pc' = AfterMessage(~Raises(kind))
            /\ UNCHANGED <<batch, recipients, pending, channel>>
    /\ UNCHANGED <<connected_clients, client_pc, client_open, inbox, failed_sends>>
    /\ UNCHANGED <<tracker_vars, call_vars, session_vars, score_vars>>

\* line 122: one client.send(message) of the gather resolves: the message is
\* delivered, or the send raises because the connection is closed
BroadcastSend(ws) ==
    /\ relay_pc = "gather"
    /\ ws \in SendTargets(pending, connected_clients)
    /\ IF client_open[ws]
       THEN /\ inbox' = [inbox EXCEPT ![ws] = @ \cup {batch}]
            /\ UNCHANGED failed_sends
       ELSE /\ failed_sends' = [failed_sends EXCEPT ![ws] = @ \cup {batch}]
            /\ UNCHANGED inbox
    /\ pending' = Gather(pending, ws, client_open[ws])
    /\ UNCHANGED <<connected_clients, client_pc, client_open, relay_pc, channel,
                   batch, recipients, log, msg>>
    /\ UNCHANGED <<tracker_vars, call_vars, session_vars, score_vars>>

\* lines 121-124, 202-214: every send has resolved, gather returns, the
\* results are printed
BroadcastDone ==
    /\ relay_pc = "gather"
    /\ pending = {}
    /\ relay_pc' = AfterMessage(~GatherRaises({ws \in recipients : batch \in failed_sends[ws]}))
    /\ log' = IF GatherRaises({ws \in recipients : batch \in failed_sends[ws]})
              THEN "error_processing_data"
              ELSE "analysis_results"
    /\ UNCHANGED <<connected_clients, client_pc, client_open, inbox, failed_sends,
                   channel, batch, recipients, pending, msg>>
    /\ UNCHANGED <<tracker_vars, call_vars, session_vars, score_vars>>

\* line 221: the sleep of 5 seconds before the next receive
RelayPause ==
    /\ relay_pc = "pause"
    /\ relay_pc' = "recv"
    /\ UNCHANGED <<connected_clients, client_pc, client_open, inbox, failed_sends,
                   channel, batch, recipients, pending, log, msg>>
    /\ UNCHANGED <<tracker_vars, call_vars, session_vars, score_vars>>

AnalyzerInit ==
    /\ connected_clients = {}
    /\ client_pc = [ws \in Subscribers |-> "new"]
    /\ client_open = [ws \in Subscribers |-> FALSE]
    /\ inbox = [ws \in Subscribers |-> {}]
    /\ failed_sends = [ws \in Subscribers |-> {}]
    /\ relay_pc = "connect"
    /\ channel = "none"
    /\ batch = 0
    /\ recipients = {}
    /\ pending = {}
    /\ log = "none"
    /\ msg = "none"

(***************************************************************************)
(* The hub's methods called directly, on any subscriber.                   *)
(***************************************************************************)
CallRegister(ws) ==
    /\ Len(calls) < MaxCalls
    /\ connected_clients' = register(connected_clients, ws)
    /\ raised' = NoError
    /\ calls' = Append(calls, <<"register", ws>>)
    /\ UNCHANGED <<tracker_vars, session_vars, score_vars, client_pc, client_open, inbox, failed_sends,
                   relay_pc, channel, batch, recipients, pending, log, msg>>

CallUnregister(ws) ==
    /\ Len(calls) < MaxCalls
    /\ connected_clients' = unregister(connected_clients, ws).clients
    /\ raised' = unregister(connected_clients, ws).raised
    /\ calls' = Append(calls, <<"unregister", ws>>)
    /\ UNCHANGED <<tracker_vars, session_vars, score_vars, client_pc, client_open, inbox, failed_sends,
                   relay_pc, channel, batch, recipients, pending, log, msg>>

CallInit ==
    /\ calls = <<>>
    /\ raised = NoError

(***************************************************************************)
(* handler: one session per connection to the collector.                   *)
(***************************************************************************)
Sessions == 1..NumSessions

\* lines 15-17: the maps of a ConnectionTracker just created
NewTracker == [connections |-> EmptyDict, start_times |-> EmptyDict]

\* (a mutant: one tracker for the whole module, used by every session)
TrackerShared(s) == 1
\* line 109: tracker is a local variable of handler, so a session works on
\* the tracker it has created itself
TrackerOf(s) == s

\* the samples the sessions take
SessionSamples == {<<>>, <<TcpEstablished>>, <<TcpCloseWait>>, <<UdpDns>>, <<PublicRdp>>}

\* lines 108-109: a connection is accepted and handler creates its tracker
SessionConnect(s) ==
    /\ session_pc[s] = "new"
    /\ session_pc' = [session_pc EXCEPT ![s] = "poll"]
    /\ trackers' = [trackers EXCEPT ![TrackerOf(s)] = NewTracker]
    /\ UNCHANGED <<polled, emitted, clock>>
    /\ UNCHANGED <<tracker_vars, analyzer_vars, call_vars, score_vars>>

\* line 114: get_detailed_connections on the session's tracker; it has no
\* await inside and runs in one go
SessionPoll(s, raw) ==
    /\ session_pc[s] = "poll"
    /\ Len(polled[s]) < MaxPolls
    /\ \E st \in {GetDetailedConnections(trackers[TrackerOf(s)].connections,
                                         trackers[TrackerOf(s)].start_times,
                                         raw, clock + 1)} :
          /\ trackers' = [trackers EXCEPT ![TrackerOf(s)] =
                             [connections |-> st.connections,
                              start_times |-> st.start_times]]
          /\ emitted' = [emitted EXCEPT ![s] = st.connections_data]
    /\ polled' = [polled EXCEPT ![s] = Append(@, <<raw, clock + 1>>)]
    /\ clock' = clock + 1
    /\ session_pc' = [session_pc EXCEPT ![s] = "send"]
    /\ UNCHANGED <<tracker_vars, analyzer_vars, call_vars, score_vars>>

\* lines 36, 131-132: psutil.net_connections raises, outside the try of the
\* loop body; handler logs the error and the session is over
SessionCrash(s) ==
    /\ session_pc[s] = "poll"
    /\ session_pc' = [session_pc EXCEPT ![s] = "ended"]
    /\ UNCHANGED <<trackers, polled, emitted, clock>>
    /\ UNCHANGED <<tracker_vars, analyzer_vars, call_vars, score_vars>>

\* lines 124, 129-130: the message is sent, or the client has gone and send
\* raises ConnectionClosed, which ends the session
SessionSend(s) ==
    /\ session_pc[s] = "send"
    /\ \/ session_pc' = [session_pc EXCEPT ![s] = "sleep"]
       \/ session_pc' = [session_pc EXCEPT ![s] = "ended"]
    /\ UNCHANGED <<trackers, polled, emitted, clock>>
    /\ UNCHANGED <<tracker_vars, analyzer_vars, call_vars, score_vars>>

\* line 127: the sleep of 2 seconds before the next sample
SessionSleep(s) ==
    /\ session_pc[s] = "sleep"
    /\ session_pc' = [session_pc EXCEPT ![s] = "poll"]
    /\ UNCHANGED <<trackers, polled, emitted, clock>>
    /\ UNCHANGED <<tracker_vars, analyzer_vars, call_vars, score_vars>>

SessionInit ==
    /\ session_pc = [s \in Sessions |-> "new"]
    /\ trackers = [s \in Sessions |-> NewTracker]
    /\ polled = [s \in Sessions |-> <<>>]
    /\ emitted = [s \in Sessions |-> <<>>]
    /\ clock = 0

(***************************************************************************)
(* NetworkAnalyzer: preprocess_data, calculate_anomaly_score, and the top  *)
(* 10 of process_network_data.                                             *)
(*                                                                         *)
(* A score is counted in units of 1e-10, the constant of line 95, and a    *)
(* normalized score is the fraction <<numerator, denominator>> of line 95, *)
(* not divided out; <<0, 0>> is the NaN of 0/0.  The records of a batch    *)
(* have equal duration, orig_pkts and orig_bytes (the collector sends 0    *)
(* for the last two), which StandardScaler turns into 0.                   *)
(***************************************************************************)
\* the values of 'service' and of 'conn_state', in the order np.unique
\* sorts them for LabelEncoder
ServiceNames == <<"chrome", "named">>
ConnStates == <<"CLOSED", "ESTABLISHED", "REJECTED">>

Position(sorted, v) == CHOOSE i \in 1..Len(sorted) : sorted[i] = v
Column(data, field) == {data[i][field] : i \in 1..Len(data)}

\* lines 34-39: conn_state mapped to Info, Warning, Error, then to 0, 1, 2
event_type_map(conn_state) ==
    IF conn_state \in {"REJECTED", "FAILED"} THEN 2
    ELSE IF conn_state \in {"TIMEOUT", "CLOSED"} THEN 1
    ELSE 0

\* lines 44-47: LabelEncoder fitted on the column of this batch: the code of
\* a value is the number of values of the column that sort before it
LabelEncode(sorted, column, v) ==
    Cardinality({u \in column : Position(sorted, u) < Position(sorted, v)})

\* lines 30-64: the feature row of each record.  The one-hot columns
\* service_i of a row sum to 1: the encoder is fitted on the batch itself.
preprocess_data(data) ==
    [i \in 1..Len(data) |->
        [EventType |-> event_type_map(data[i].conn_state),
         category |-> LabelEncode(ServiceNames, Column(data, "service"),
                                  data[i].service),
         subcategory |-> LabelEncode(ConnStates, Column(data, "conn_state"),
                                     data[i].conn_state),
         duration |-> 0,
         orig_pkts |-> 0,
         orig_bytes |-> 0,
         services |-> 1]]

\* lines 72-80, in thousandths
coefficients ==
    [EventType |-> 0 - 15, category |-> 12, subcategory |-> 8, duration |-> 7,
     orig_pkts |-> 5, orig_bytes |-> 5, service |-> 3]

\* a thousandth in units of 1e-10
Thousandth == 10000000
\* line 95: the 1e-10 added to the denominator
Epsilon == 1

\* lines 82-93: the weighted sum of one row
RawScore(f) ==
    Thousandth * (f.EventType * coefficients.EventType
                  + f.category * coefficients.category
                  + f.subcategory * coefficients.subcategory
                  + f.duration * coefficients.duration
                  + f.orig_pkts * coefficients.orig_pkts
                  + f.orig_bytes * coefficients.orig_bytes
                  + f.services * coefficients.service)

SeqMin(xs) == CHOOSE x \in {xs[i] : i \in 1..Len(xs)} : \A i \in 1..Len(xs) : x <= xs[i]
SeqMax(xs) == CHOOSE x \in {xs[i] : i \in 1..Len(xs)} : \A i \in 1..Len(xs) : x >= xs[i]

\* (a mutant: no 1e-10)
DenominatorNoEpsilon(lo, hi) == hi - lo
\* line 95: score.max() - score.min() + 1e-10
Denominator(lo, hi) == hi - lo + Epsilon

\* lines 70-97
calculate_anomaly_score(features) ==
    LET score == [i \in 1..Len(features) |-> RawScore(features[i])]
        lo == SeqMin(score)
        hi == SeqMax(score)
    IN  [i \in 1..Len(features) |-> <<score[i] - lo, Denominator(lo, hi)>>]

\* the scores of one batch have one denominator: they compare as their
\* numerators do
AtLeast(x, y) == x[1] >= y[1]

\* the top 10 of line 197
TopK == 10

\* the rows in descending order of score, rows of equal score in row order
RECURSIVE StableDescending(_, _)
StableDescending(sc, rows) ==
    IF rows = {} THEN <<>>
    ELSE LET best == CHOOSE i \in rows :
                         \A j \in rows : /\ AtLeast(sc[i], sc[j])
                                         /\ AtLeast(sc[j], sc[i]) => i <= j
         IN  <<best>> \o StableDescending(sc, rows \ {best})

\* every descending order of the rows, rows of equal score in any order
RECURSIVE AnyDescending(_, _)
AnyDescending(sc, rows) ==
    IF rows = {} THEN {<<>>}
    ELSE UNION {{<<i>> \o rest : rest \in AnyDescending(sc, rows \ {i})} :
                  i \in {r \in rows : \A j \in rows : AtLeast(sc[r], sc[j])}}

\* the first n rows of an order: head(n), [:n]
FirstRows(order, n) == SubSeq(order, 1, Min(n, Len(order)))

\* line 197: results.nlargest(10, 'anomaly_score'), keep='first'.  With
\* fewer rows than n pandas takes sort_values(ascending=False).head(n),
\* whose default sort (quicksort) does not promise an order for rows of
\* equal score; otherwise it selects the n largest and orders them with a
\* stable sort, the earlier row first.
nlargest(n, sc) ==
    IF n >= Len(sc)
    THEN {FirstRows(order, n) : order \in AnyDescending(sc, 1..Len(sc))}
    ELSE {FirstRows(StableDescending(sc, 1..Len(sc)), n)}

\* the records the batches are made of
RecordKinds ==
    {[service |-> ServiceNames[s], conn_state |-> ConnStates[c]] :
        s \in 1..Len(ServiceNames), c \in 1..Len(ConnStates)}
KindAt(k) ==
    [service |-> ServiceNames[(k % 2) + 1], conn_state |-> ConnStates[(k % 3) + 1]]

\* every batch of up to MaxShortBatch records
ShortBatches == UNION {[1..n -> RecordKinds] : n \in 1..MaxShortBatch}
\* batches of about 10 records and more: the kinds in turn, or one kind only
LongBatches ==
    {[i \in 1..n |-> KindAt(a * i + b)] :
        n \in (TopK - 1)..MaxLongBatch, a \in {1, 5}, b \in 0..2}
    \cup {[i \in 1..n |-> KindAt(k)] : n \in (TopK + 1)..MaxLongBatch, k \in 0..5}
Batches == ShortBatches \cup LongBatches

\* lines 167-198: one batch, not empty, is encoded, scored and ranked; there
\* is no await between line 165 and line 200.  Every batch is scored from
\* scratch (the encoders and the scaler are fitted again on each batch), so
\* one batch is followed.
ScoreBatch(connections_list) ==
    /\ records = <<>>
    /\ records' = connections_list
    /\ \E sc \in {calculate_anomaly_score(preprocess_data(connections_list))} :
          /\ scores' = sc
          /\ top_anomalies' \in nlargest(TopK, sc)
    /\ UNCHANGED <<tracker_vars, analyzer_vars, call_vars, session_vars>>

ScoreInit ==
    /\ records = <<>>
    /\ scores = <<>>
    /\ top_anomalies = <<>>

(***************************************************************************)
(* The specifications.                                                     *)
(***************************************************************************)
Init == TrackerInit /\ AnalyzerInit /\ CallInit /\ SessionInit /\ ScoreInit

TrackerNext == \E raw \in Samples, dt \in Ticks : cycle < MaxCycles /\ Cycle(raw, dt)

\* a tracker polled MaxCycles times on arbitrary samples
TrackerSpec == Init /\ [][TrackerNext]_vars

HistoryNext ==
    \E raw \in HistorySamples :
        cycle < MaxLongCycles /\ Progresses(raw) /\ Cycle(raw, 1)

\* a tracker polled MaxLongCycles times on samples of one identity
HistorySpec == Init /\ [][HistoryNext]_vars

AnalyzerNext ==
    \/ \E ws \in Subscribers : HandleClientRegister(ws)
    \/ \E ws \in Subscribers : HandleClientGreeting(ws)
    \/ \E ws \in Subscribers : SubscriberCloses(ws)
    \/ RelayConnect
    \/ RelayRetry
    \/ PublisherCloses
    \/ RelayRecvClosed
    \/ \E kind \in MessageKinds : RelayRecv(kind)
    \/ \E ws \in Subscribers : BroadcastSend(ws)
    \/ BroadcastDone
    \/ RelayPause

\* The event loop runs every task that can run and every sleep ends; when a
\* subscriber or the data source closes, and when a message arrives, is up
\* to them.
AnalyzerFairness ==
    /\ \A ws \in Subscribers :
          WF_vars(HandleClientGreeting(ws)) /\ WF_vars(BroadcastSend(ws))
    /\ WF_vars(RelayConnect)
    /\ WF_vars(RelayRetry)
    /\ WF_vars(RelayRecvClosed)
    /\ WF_vars(BroadcastDone)
    /\ WF_vars(RelayPause)

\* the analyzer: the relay loop and the subscribers' handle_client tasks
AnalyzerSpec == Init /\ [][AnalyzerNext]_vars /\ AnalyzerFairness

HubNext ==
    \/ \E ws \in Subscribers : CallRegister(ws)
    \/ \E ws \in Subscribers : CallUnregister(ws)

\* register and unregister called in any order on any subscriber
HubSpec == Init /\ [][HubNext]_vars

SessionNext ==
    \/ \E s \in Sessions : SessionConnect(s)
    \/ \E s \in Sessions, raw \in SessionSamples : SessionPoll(s, raw)
    \/ \E s \in Sessions : SessionCrash(s)
    \/ \E s \in Sessions : SessionSend(s)
    \/ \E s \in Sessions : SessionSleep(s)

\* the sessions of the collector, interleaved at their awaits
SessionSpec == Init /\ [][SessionNext]_vars

ScoreNext == \E connections_list \in Batches : ScoreBatch(connections_list)

\* the scorer on one batch, any of Batches
ScoreSpec == Init /\ [][ScoreNext]_vars

(***************************************************************************)
(* Properties of the tracker.                                              *)
(***************************************************************************)
\* the raw connections of the last sample that were read without an error
ReadOk(c) == c.laddr # NoAddr /\ c.proc # LookupError
\* the records of the last result built for identity id
Emitted(id) == {j \in 1..Len(result) : result[j].conn_id = id}

\* C1: get_detailed_connections returns a record for a raw connection iff
\* its local ip is not classified as local and its local port is not 3389.
C1_RetainedIffNotLocalAndNotRdp ==
    \A i \in 1..Len(sample) :
        ReadOk(sample[i]) =>
            (Emitted(ConnId(sample[i])) # {}
                <=> (/\ ~is_local_address(sample[i].laddr[1])
                     /\ sample[i].laddr[2] # RdpPort))

C8_FreshAfterEviction ==
    [][/\ \A id \in DOMAIN start_times :
             id \notin seen_ids' =>
                 /\ id \notin DOMAIN start_times'
                 /\ id \notin DOMAIN connections'
                 /\ \A j \in 1..Len(result') : result'[j].conn_id # id
       /\ \A id \in evicted :
             (id \notin DOMAIN start_times /\ id \in seen_ids') =>
                 \A j \in 1..Len(result') :
                     result'[j].conn_id = id =>
                         /\ result'[j].history = <<result'[j].conn_state[1]>>
                         /\ result'[j].duration = 0]_vars

\* what the code does keep of C8: the drop, and on the return of an evicted
\* identity a duration counted from that call, a first record with a
\* one-letter history, and no history longer than the records of that call
C8_FreshFirstRecord ==
    [][/\ \A id \in DOMAIN start_times :
             id \notin seen_ids' =>
                 /\ id \notin DOMAIN start_times'
                 /\ id \notin DOMAIN connections'
                 /\ \A j \in 1..Len(result') : result'[j].conn_id # id
       /\ \A id \in evicted :
             (id \notin DOMAIN start_times /\ id \in seen_ids') =>
                 \A j \in 1..Len(result') :
                     result'[j].conn_id = id =>
                         /\ result'[j].duration = 0
                         /\ Len(result'[j].history)
                                = Cardinality({k \in 1..j : result'[k].conn_id = id})
                         /\ \A k \in 1..Len(result'[j].history) :
                                \E m \in 1..Len(sample') :
                                    /\ sample'[m].laddr # NoAddr
                                    /\ ConnId(sample'[m]) = id
                                    /\ sample'[m].status[1] = result'[j].history[k]]_vars

\* C9: the history of every emitted record, and of every stored record, is
\* at most 20 characters long.
C9_HistoryAtMost20 ==
    /\ \A j \in 1..Len(result) : Len(result[j].history) <= HistoryCap
    /\ \A id \in DOMAIN connections : Len(connections[id].history) <= HistoryCap

\* an identity tracked for more than 20 calls in a row, two records of it in
\* the last sample, its history at the cap
C9_Witness ==
    /\ Len(result) = 2
    /\ result[1].conn_id = result[2].conn_id
    /\ now - start_times[result[2].conn_id] > HistoryCap
    /\ Len(result[2].history) = HistoryCap

\* C10: while an identity stays in the raw samples its start time is not
\* changed, and the duration emitted for it is >= 0 and >= the duration
\* emitted for it by the call before.
C10_DurationMonotone ==
    [][/\ \A j \in 1..Len(result') : result'[j].duration >= 0
       /\ \A id \in DOMAIN start_times :
             id \in seen_ids' =>
                 /\ id \in DOMAIN start_times'
                 /\ start_times'[id] = start_times[id]
                 /\ \A i \in 1..Len(result), j \in 1..Len(result') :
                        (result[i].conn_id = id /\ result'[j].conn_id = id)
                            => result'[j].duration >= result[i].duration]_vars

\* an identity emitted by two calls, the clock having moved in between
C10_Witness ==
    \E j \in 1..Len(result) :
        /\ result[j].duration >= 1
        /\ start_times[result[j].conn_id] < now


\* the raw connections of a sample that the loop reads and the test keeps
Emits(c) == ReadOk(c) /\ Retained(c)

\* C16: a raw connection whose processing raises is skipped and the others
\* of the sample are processed all the same: the call returns one record
\* per raw connection that is read without error and retained, in the order
\* of the sample, and a record whose process lookup failed carries the name
\* "unknown".
C16_ErrorsSkipOneConnection ==
    LET kept == SelectSeq(sample, Emits)
    IN  /\ Len(result) = Len(kept)
        /\ \A j \in 1..Len(kept) :
              /\ result[j].conn_id = ConnId(kept[j])
              /\ result[j].conn_state = kept[j].status
              /\ result[j].service =
                     (IF kept[j].proc \in {NoSuchProcess, AccessDenied}
                      THEN "unknown" ELSE kept[j].proc)

\* a sample whose first raw connection raises and whose second is emitted,
\* its process lookup having failed
C16_Witness ==
    /\ Len(sample) = 2
    /\ ~ReadOk(sample[1])
    /\ sample[2].proc = AccessDenied
    /\ Len(result) = 1
    /\ result[1].service = Unknown

\* C17: the history emitted for an identity seen in k cycles in a row has
\* min(k, 20) letters, the stored history with the letter of the status just
\* observed appended, cut to 20.  (Every call of HistorySpec moves the clock
\* by 1, so k is the time since the identity's start time, plus 1.)
C17_OneLetterPerCycle ==
    [][\A j \in 1..Len(result') :
           LET id == result'[j].conn_id
               k == now' - start_times'[id] + 1
           IN  /\ Len(result'[j].history) = Min(k, HistoryCap)
               /\ result'[j].history =
                      Slice20(IF id \in DOMAIN connections
                              THEN Append(connections[id].history,
                                          result'[j].conn_state[1])
                              ELSE <<result'[j].conn_state[1]>>)]_vars

\* what the code does keep of C17: when an identity is listed once in the
\* sample, its record has one letter more than the stored history, up to 20
C17_OneLetterWhenListedOnce ==
    [][\A j \in 1..Len(result') :
           LET id == result'[j].conn_id
               k == now' - start_times'[id] + 1
           IN  Cardinality({i \in 1..Len(sample') : ConnId(sample'[i]) = id}) = 1
                   => /\ k = 1 => Len(result'[j].history) = 1
                      /\ result'[j].history =
                             Slice20(IF id \in DOMAIN connections
                                     THEN Append(connections[id].history,
                                                 result'[j].conn_state[1])
                                     ELSE <<result'[j].conn_state[1]>>)]_vars

\* the retention filter as the specification states it
PassesFilter(id) == ~is_local_address(id[1]) /\ id[2] # RdpPort

\* C20: after every call the identities of connections are identities of
\* start_times, which are identities of the raw sample of that call, and
\* every identity of connections passes the retention filter.
C20_StateWithinSample ==
    /\ DOMAIN connections \subseteq DOMAIN start_times
    /\ DOMAIN start_times \subseteq
           {ConnId(sample[i]) : i \in {n \in 1..Len(sample) : sample[n].laddr # NoAddr}}
    /\ \A id \in DOMAIN connections : PassesFilter(id)

\* what the code does keep of C20: the two inclusions, and the test of line
\* 89 as Python evaluates it
C20_StateWithinSampleAsCoded ==
    /\ DOMAIN connections \subseteq DOMAIN start_times
    /\ DOMAIN start_times \subseteq
           {ConnId(sample[i]) : i \in {n \in 1..Len(sample) : sample[n].laddr # NoAddr}}
    /\ DOMAIN start_times = seen_ids
    /\ \A id \in DOMAIN connections : ~is_local_address(id[1])

(***************************************************************************)
(* Properties of the analyzer.                                             *)
(***************************************************************************)
\* C2: whenever the receive reports that the connection to the data source
\* is closed, the relay eventually leaves the receive loop and connects
\* again.
C2_ClosedLeadsToReconnect ==
    (relay_pc = "recv" /\ channel = "closed") ~> (relay_pc = "connect")

\* what the code does keep of C2: a failed connection attempt is retried
C2_FailedConnectRetried == (relay_pc = "retry") ~> (relay_pc = "connect")

\* C3: a broadcast builds a send for every subscriber of the set; when all
\* have resolved, each recipient has the message or its send has failed, a
\* recipient whose connection is open has the message whatever happened to
\* the others, and no failure of a send is raised out of broadcast.
C3_BroadcastIsolatesFailures ==
    /\ [][relay_pc' = "gather" /\ relay_pc # "gather"
              => recipients' = connected_clients /\ pending' = connected_clients]_vars
    /\ []((relay_pc # "gather" \/ pending = {}) =>
             \A ws \in recipients :
                 /\ batch \in inbox[ws] \/ batch \in failed_sends[ws]
                 /\ client_open[ws] => batch \in inbox[ws])
    /\ []((relay_pc = "pause" /\ msg = "scored") => log = "analysis_results")

\* a broadcast to every subscriber is over: one send failed, another went through
C3_Witness ==
    /\ relay_pc = "pause"
    /\ log = "analysis_results"
    /\ recipients = Subscribers
    /\ \E ws \in recipients : batch \in failed_sends[ws]
    /\ \E ws \in recipients : batch \in inbox[ws]

\* C4: a subscriber whose send failed in a broadcast is out of the set when
\* that broadcast is over, and no later broadcast builds a send for it.
C4_FailedSubscriberRemoved ==
    \A ws \in Subscribers :
        Greeting \in inbox[ws] =>
            /\ (relay_pc = "pause" /\ failed_sends[ws] # {}) => ws \notin connected_clients
            /\ Cardinality(failed_sends[ws]) <= 1

\* C5: unregister of a subscriber that is not in the set raises nothing and
\* leaves the set as it is.
C5_UnregisterAbsentIsNoOp ==
    [][\A ws \in Subscribers :
           (calls' = Append(calls, <<"unregister", ws>>) /\ ws \notin connected_clients)
               => (raised' = NoError /\ connected_clients' = connected_clients)]_vars

\* C6: a subscriber whose connection has closed is eventually out of the set.
C6_ClosedEventuallyUnregistered ==
    \A ws \in Subscribers :
        (client_pc[ws] # "new" /\ ~client_open[ws]) ~> (ws \notin connected_clients)


\* a step of the relay that handles what a receive gave
Receives == relay_pc = "recv" /\ (msg' # msg \/ relay_pc' # "recv")

\* C11: a batch with an empty list of connections, or that preprocess_data
\* or calculate_anomaly_score gives up on, is not broadcast: the step that
\* receives it sends nothing to any subscriber and goes to the pause, the
\* connection to the data source untouched, and the pause leads back to the
\* receive; a broadcast is only ever in flight for a scored batch.
C11_DroppedBatchNotBroadcast ==
    /\ [][(Receives /\ msg' \in {"no_connections", "no_features", "no_scores"})
             => (/\ relay_pc' = "pause"
                 /\ UNCHANGED <<inbox, failed_sends, batch, recipients, pending,
                                channel, connected_clients>>)]_vars
    /\ [][(relay_pc = "pause" /\ relay_pc' # "pause")
             => (relay_pc' = "recv" /\ channel' = channel)]_vars
    /\ [](relay_pc = "gather" => msg = "scored")
    /\ [][\A ws \in Subscribers :
             (inbox'[ws] # inbox[ws] /\ Greeting \in inbox[ws])
                 => (relay_pc = "gather" /\ msg = "scored")]_vars

\* a batch has been dropped at the scorer while a live subscriber, greeted,
\* was registered: it has received nothing, and the relay is back at the
\* receive on the open connection
C11_Witness ==
    /\ relay_pc = "recv"
    /\ msg = "no_scores"
    /\ channel = "open"
    /\ batch = 0
    /\ \E ws \in connected_clients : client_open[ws] /\ inbox[ws] = {Greeting}

\* C12: a message that cannot be decoded is skipped: the step that receives
\* it sends nothing and goes to the pause on the same connection, and a
\* scored batch received next is broadcast to every subscriber of the set.
C12_UndecodableSkipped ==
    /\ [][(Receives /\ msg' \in {"invalid_json", "no_field"})
             => (/\ relay_pc' = "pause"
                 /\ log' \in {"error_decoding_json", "error_processing_data"}
                 /\ UNCHANGED <<inbox, failed_sends, batch, recipients, pending,
                                channel, connected_clients>>)]_vars
    /\ [][(msg \in {"invalid_json", "no_field"} /\ relay_pc = "pause")
             => (relay_pc' \in {"pause", "recv"} /\ msg' = msg)]_vars
    /\ [][(msg \in {"invalid_json", "no_field"} /\ relay_pc = "recv" /\ msg' = "scored")
             => (/\ relay_pc' = "gather"
                 /\ batch' = batch + 1
                 /\ recipients' = connected_clients
                 /\ pending' = connected_clients
                 /\ channel' = channel)]_vars
    /\ []((relay_pc = "pause" /\ msg = "scored") =>
             /\ log = "analysis_results"
             /\ \A ws \in recipients : client_open[ws] => batch \in inbox[ws])

\* the broadcast of a scored batch received right after invalid JSON is over
\* and a subscriber has the batch (the line printed for the invalid message
\* is still the last one printed)
C12_Witness ==
    /\ relay_pc = "gather"
    /\ pending = {}
    /\ msg = "scored"
    /\ log = "error_decoding_json"
    /\ \E ws \in recipients : batch \in inbox[ws]


\* C18: the relay handles one batch at a time, in order of arrival: batch
\* numbers go up by one, a new batch is only received when every send of the
\* one before has resolved, a subscriber is only ever sent the batch in
\* hand, and whatever a receive gave (a batch broadcast, a message skipped,
\* an error) the pause is taken before the next receive.
C18_OneBatchAtATime ==
    /\ [][batch' # batch =>
             (/\ batch' = batch + 1
              /\ relay_pc = "recv"
              /\ pending = {}
              /\ \A ws \in recipients :
                     batch = 0 \/ batch \in inbox[ws] \/ batch \in failed_sends[ws])]_vars
    /\ [][\A ws \in Subscribers :
             inbox'[ws] \ inbox[ws] \subseteq {Greeting, batch}]_vars
    /\ [][Receives => relay_pc' \in {"gather", "pause"}]_vars
    /\ [][(relay_pc = "gather" /\ relay_pc' # "gather")
             => (relay_pc' = "pause" /\ pending = {})]_vars
    /\ [][(relay_pc' = "recv" /\ relay_pc # "recv")
             => relay_pc \in {"pause", "connect"}]_vars

\* the second batch is being broadcast after the first was delivered, an
\* undecodable message having been skipped at some point
C18_Witness ==
    /\ relay_pc = "gather"
    /\ batch = 2
    /\ log = "error_decoding_json"
    /\ \E ws \in Subscribers : 1 \in inbox[ws] /\ ws \in pending

\* C19: the recipients of a broadcast are the subscribers of the set when
\* broadcast is called.  While its sends are in flight the list of
\* recipients does not change; who registers meanwhile is not sent the
\* message, who unregisters meanwhile does not receive it afterwards, and
\* every send of the list still resolves and the broadcast ends normally.
C19_RecipientsAreSnapshot ==
    /\ [][(relay_pc' = "gather" /\ relay_pc # "gather")
             => (recipients' = connected_clients /\ pending' = recipients')]_vars
    /\ [][(relay_pc = "gather" /\ relay_pc' = "gather")
             => (/\ recipients' = recipients
                 /\ pending' \subseteq pending
                 /\ Cardinality(pending \ pending') <= 1)]_vars
    /\ [](\A ws \in Subscribers :
             (batch > 0 /\ batch \in inbox[ws]) => ws \in recipients)
    /\ [][\A ws \in Subscribers :
             (batch > 0 /\ batch \in inbox'[ws] /\ batch \notin inbox[ws])
                 => (ws \in pending /\ ws \in connected_clients)]_vars
    /\ []((relay_pc = "pause" /\ msg = "scored") =>
             /\ log = "analysis_results"
             /\ \A ws \in recipients : batch \in inbox[ws] \/ batch \in failed_sends[ws])

\* the sends of a broadcast have all resolved; meanwhile one recipient has
\* unregistered and a subscriber has registered and been greeted, without
\* being sent the batch
C19_Witness ==
    /\ relay_pc = "gather"
    /\ pending = {}
    /\ \E ws \in recipients : ws \notin connected_clients /\ batch \in failed_sends[ws]
    /\ \E ws \in connected_clients :
           ws \notin recipients /\ Greeting \in inbox[ws] /\ batch \notin inbox[ws]


(***************************************************************************)
(* Properties of the sessions.                                             *)
(***************************************************************************)
\* a tracker of its own, fed the first n of the samples (raw, time) alone
RECURSIVE Replay(_, _)
Replay(samples, n) ==
    IF n = 0
    THEN [connections |-> EmptyDict, start_times |-> EmptyDict,
          current_connections |-> {}, connections_data |-> <<>>]
    ELSE LET before == Replay(samples, n - 1)
         IN  GetDetailedConnections(before.connections, before.start_times,
                                    samples[n][1], samples[n][2])

\* C13: a step of one session leaves the tracker, the position and the last
\* records of every other session as they are, and what a session's tracker
\* holds and emits is what a tracker fed that session's own samples alone
\* would hold and emit.
C13_SessionsIndependent ==
    /\ [][\A s \in Sessions :
             session_pc'[s] # session_pc[s] =>
                 \A t \in Sessions \ {s} :
                     /\ trackers'[t] = trackers[t]
                     /\ session_pc'[t] = session_pc[t]
                     /\ emitted'[t] = emitted[t]
                     /\ polled'[t] = polled[t]]_vars
    /\ [](\A s \in Sessions :
             session_pc[s] # "new" =>
                 LET own == Replay(polled[s], Len(polled[s]))
                 IN  /\ trackers[s].connections = own.connections
                     /\ trackers[s].start_times = own.start_times
                     /\ emitted[s] = own.connections_data)

\* two sessions have sampled the same identity, one of them twice and the
\* other once before it ended: their histories differ
C13_Witness ==
    \E s, t \in Sessions :
        /\ s # t
        /\ session_pc[t] = "ended"
        /\ Len(polled[s]) = 2 /\ Len(polled[t]) = 1
        /\ Len(emitted[s]) = 1 /\ Len(emitted[t]) = 1
        /\ emitted[s][1].conn_id = emitted[t][1].conn_id
        /\ Len(emitted[s][1].history) = 2
        /\ Len(emitted[t][1].history) = 1


(***************************************************************************)
(* Properties of the scorer.                                               *)
(***************************************************************************)
\* a normalized score within [0, 1]; the NaN <<0, 0>> is not
InUnitInterval(x) == x[2] > 0 /\ 0 <= x[1] /\ x[1] <= x[2]
IsZero(x) == x[2] > 0 /\ x[1] = 0
\* the raw scores of the batch, computed again from its records
RawScores == [i \in 1..Len(records) |-> RawScore(preprocess_data(records)[i])]

\* C14: every record of a batch gets a score in [0, 1]; a record whose raw
\* score is the least of the batch gets 0, and so does every record when the
\* raw scores are all equal, the denominator never being 0.
C14_ScoresInUnitInterval ==
    /\ Len(scores) = Len(records)
    /\ \A i \in 1..Len(scores) :
          /\ InUnitInterval(scores[i])
          /\ RawScores[i] = SeqMin(RawScores) => IsZero(scores[i])
          /\ SeqMin(RawScores) = SeqMax(RawScores) => IsZero(scores[i])
          /\ \A j \in 1..Len(scores) :
                 RawScores[i] <= RawScores[j] => AtLeast(scores[j], scores[i])

\* a batch of one record, or of several records of one raw score, scored 0
\* throughout
C14_Witness ==
    /\ Len(records) >= 2
    /\ SeqMin(RawScores) = SeqMax(RawScores)
    /\ \A i \in 1..Len(scores) : IsZero(scores[i])

\* a batch whose raw scores differ: the least is scored 0, the greatest
\* just under 1
C14_WitnessSpread ==
    /\ Len(records) >= 2
    /\ \E i, j \in 1..Len(scores) :
          /\ IsZero(scores[i])
          /\ scores[j][1] > 0 /\ scores[j][1] = scores[j][2] - Epsilon

\* the rows of top_anomalies are rows of the batch, each once, min(10, n) of
\* them, in descending order of score, and no row left out has a greater
\* score than a row listed
TopIsDescendingPrefix ==
    /\ Len(top_anomalies) = Min(TopK, Len(records))
    /\ \A a \in 1..Len(top_anomalies) : top_anomalies[a] \in 1..Len(records)
    /\ \A a, b \in 1..Len(top_anomalies) :
          /\ a < b => top_anomalies[a] # top_anomalies[b]
          /\ a < b => AtLeast(scores[top_anomalies[a]], scores[top_anomalies[b]])
    /\ \A a \in 1..Len(top_anomalies) :
          \A i \in 1..Len(records) :
              (\A b \in 1..Len(top_anomalies) : top_anomalies[b] # i)
                  => AtLeast(scores[top_anomalies[a]], scores[i])

\* rows of equal score are listed in the order of the batch
TiesInBatchOrder ==
    \A a, b \in 1..Len(top_anomalies) :
        (/\ a < b
         /\ AtLeast(scores[top_anomalies[b]], scores[top_anomalies[a]]))
            => top_anomalies[a] < top_anomalies[b]

\* C15: top_anomalies holds min(10, n) records of the batch in descending
\* order of score, none left out has a greater score than one listed, and
\* records of equal score are in the order of the batch.
C15_TopTenInBatchOrder == TopIsDescendingPrefix /\ TiesInBatchOrder

\* what the code does keep of C15: the size, the order of the scores, and
\* the order of equal scores when the batch has more than 10 records
C15_TopTenDescending ==
    /\ TopIsDescendingPrefix
    /\ Len(records) > TopK => TiesInBatchOrder
    /\ \A a \in 1..Len(top_anomalies) :
          \A i \in 1..Len(records) :
              (/\ \A b \in 1..Len(top_anomalies) : top_anomalies[b] # i
               /\ AtLeast(scores[i], scores[top_anomalies[a]]))
                  => top_anomalies[a] < i

====
